---- MODULE Spec2Model ----
(***************************************************************************)
(* aws-iam-manager: the Users reconciler (src/src/users.js) and the        *)
(* Policies reconciler as pinned by its test suite (src/unnamed/part_000). *)
(*                                                                         *)
(* Every remote call is asynchronous: an operation issues the call (it is  *)
(* added to `calls`) and suspends; a ...Responds action is the arrival of  *)
(* the response together with the continuation that runs up to the next    *)
(* await.  Promise.all combinators settle in the same step as the promise  *)
(* that decides them.                                                      *)
(***************************************************************************)
EXTENDS Integers, Sequences, FiniteSets, TLC

VARIABLES
  USERS_PATH,     \* process.env.USERS_PATH
  desired,        \* json.users handed to Users.update
  live,           \* user names the remote listUsers returns
  updPc,          \* Users.update: "idle", "listUsers", "awaiting", "resolved", "rejected"; "none" when not invoked
  updResult,      \* <<>> until update resolves, then <<createResults, deleteResults>>
  usersToAdd,     \* users.js:156
  usersToDelete,  \* users.js:157
  cproc,          \* one createUser invocation per entry: its position (pc), the
                  \* outcome of its credential call (cred) and of its notifier (notif)
  dproc,          \* one deleteUser invocation per entry
  calls,          \* every remote / notifier call the Users service issued so far
  policies,       \* json.policies handed to Policies.update
  livePolicies,   \* the records the remote listPolicies returns
  polPc,          \* Policies.update: "idle", "listPolicies", "awaiting", "resolved", "rejected"; "none" when not invoked
  polResult,      \* <<>> until update resolves, then <<[createResult |-> .., deleteResult |-> ..]>>
  kproc,          \* one createPolicy invocation per entry
  rproc,          \* one removePolicy invocation per entry
  eproc,          \* detachFromAllEntities called on its own: at most one invocation
  gproc,          \* getPolicy: at most one invocation
  pcalls          \* every remote call the Policies service issued so far

uvars == <<desired, live, updPc, updResult, usersToAdd, usersToDelete, cproc, dproc, calls>>
pvars == <<policies, livePolicies, polPc, polResult, kproc, rproc, eproc, gproc, pcalls>>
vars == <<USERS_PATH, uvars, pvars>>

----------------------------------------------------------------------------
(* Bounds of the model *)

MaxDesired == 2     \* length of json.users
MaxLive == 2        \* listUsers answers with some of the first MaxLive users of LivePool
MaxGroups == 2      \* groups a list call answers with
MaxKeys == 2        \* access keys listAccessKeys answers with

UpdateNames == {"alice", "bob_keys", "carol"}
CallNames == UpdateNames \cup {"_keys", "keys", "bobkeys", "a_key"}
\* the users listUsers may answer with, each at most once (user names are
\* unique within an account)
LivePool == <<"bob_keys", "carol", "alice">>
GroupPool == <<"g_first", "g_second", "g_third">>
KeyPool == <<"AKIA1", "AKIA2", "AKIA3">>

Min(a, b) == IF a < b THEN a ELSE b

SeqsUpTo(S, n) == UNION {[1..k -> S] : k \in 0..n}

Injective(s) == \A i, j \in 1..Len(s) : s[i] = s[j] => i = j

Range(s) == {s[i] : i \in 1..Len(s)}

\* the listings a remote list call may answer with: the sub-listings of the
\* first n entries of the pool
Listings(pool, n) ==
  LET top == SubSeq(pool, 1, Min(n, Len(pool)))
  IN  {SelectSeq(top, LAMBDA x : x \in S) : S \in SUBSET Range(top)}

----------------------------------------------------------------------------
(* Strings *)

\* the characters of a user name
Chars(s) ==
  CASE s = "alice"    -> <<"a", "l", "i", "c", "e">>
    [] s = "bob_keys" -> <<"b", "o", "b", "_", "k", "e", "y", "s">>
    [] s = "carol"    -> <<"c", "a", "r", "o", "l">>
    [] s = "_keys"    -> <<"_", "k", "e", "y", "s">>
    [] s = "keys"     -> <<"k", "e", "y", "s">>
    [] s = "bobkeys"  -> <<"b", "o", "b", "k", "e", "y", "s">>
    [] s = "a_key"    -> <<"a", "_", "k", "e", "y">>

\* String.prototype.substr(start) with a negative start: the last -start
\* characters, the whole string when it is shorter
Substr(cs, start) ==
  LET from == IF start < 0
              THEN (IF Len(cs) + start < 0 THEN 0 ELSE Len(cs) + start)
              ELSE Min(start, Len(cs))
  IN  SubSeq(cs, from + 1, Len(cs))

EndsWithKeysLast4(UserName) == Substr(Chars(UserName), -4) = <<"k", "e", "y", "s">>

\* UserName.substr(-5) === '_keys'
EndsWithKeys(UserName) == Substr(Chars(UserName), -5) = <<"_", "k", "e", "y", "s">>

DifferenceKeepAll(array, values) == array

DifferenceFromFirst(array, values) ==
  SelectSeq(array, LAMBDA x : values # <<>> => x # values[1])

\* lodash.difference(array, values): the entries of array that are not in
\* values, in order, repeats kept
Difference(array, values) == SelectSeq(array, LAMBDA x : x \notin Range(values))

----------------------------------------------------------------------------
(* Users.createUser *)

NoResp == [of |-> "none", UserName |-> ""]

Call(op, UserName, by) == [op |-> op, UserName |-> UserName, by |-> by]

\* users.js:60-63
StartCreateUser(UserName) ==
  [name |-> UserName, pc |-> "createUser", cred |-> "none", notif |-> "none", resp |-> NoResp]

CreateUserCall(UserName, i) ==
  [op |-> "createUser", UserName |-> UserName, Path |-> USERS_PATH, by |-> <<"createUser", i>>]

CredentialCallAlwaysProfile(UserName) == "createLoginProfile"

\* users.js:66-77: which credential createUser provisions
CredentialCall(UserName) ==
  IF EndsWithKeys(UserName) THEN "createAccessKey" ELSE "createLoginProfile"

\* users.js:25-29 and 41-43
CredentialRequest(UserName, i) ==
  IF CredentialCall(UserName) = "createAccessKey"
  THEN Call("createAccessKey", UserName, <<"createUser", i>>)
  ELSE [op |-> "createLoginProfile", UserName |-> UserName,
        PasswordResetRequired |-> TRUE, by |-> <<"createUser", i>>]

----------------------------------------------------------------------------
(* Promise.all of Users.update, users.js:180-183 *)

Pcs(procs) == {procs[i].pc : i \in 1..Len(procs)}

Resps(procs) == [i \in 1..Len(procs) |-> procs[i].resp]

SettleIgnoresRejection(pc, c, d) ==
  IF pc # "awaiting" THEN pc
  ELSE IF (Pcs(c) \cup Pcs(d)) \subseteq {"resolved", "rejected"} THEN "resolved"
  ELSE "awaiting"

SettleOnlyOnSuccess(pc, c, d) ==
  IF pc # "awaiting" THEN pc
  ELSE IF (Pcs(c) \cup Pcs(d)) \subseteq {"resolved"} THEN "resolved"
  ELSE "awaiting"

Settle(pc, c, d) ==
  IF pc # "awaiting" THEN pc
  ELSE IF "rejected" \in (Pcs(c) \cup Pcs(d)) THEN "rejected"
  ELSE IF (Pcs(c) \cup Pcs(d)) \subseteq {"resolved"} THEN "resolved"
  ELSE "awaiting"

SettleUpdate ==
  /\ updPc' = Settle(updPc, cproc', dproc')
  /\ updResult' = IF updPc' = "resolved" /\ updPc # "resolved"
                  THEN <<Resps(cproc'), Resps(dproc')>>
                  ELSE updResult

----------------------------------------------------------------------------
(* Users.createUser, the continuations after each await *)

\* users.js:66-84: the notifier createUser hands the credential to
Notifier(UserName) ==
  IF EndsWithKeys(UserName)
  THEN "enqueueSendProgrammaticAccessKeys"
  ELSE "enqueueSendUserCredentialsEmail"

\* users.js:60-77: createUser after iam.createUser has answered; a rejection
\* of the awaited call rejects createUser
AfterCreateUser(p, ok) ==
  IF ok
  THEN [p EXCEPT !.pc = CredentialCall(p.name), !.cred = "pending",
                 !.resp = [of |-> "createUser", UserName |-> p.name]]
  ELSE [p EXCEPT !.pc = "rejected"]

AfterAccessKeyNotifiesAnyway(p, ok) ==
  [p EXCEPT !.cred = IF ok THEN "done" ELSE "failed", !.notif = "pending",
            !.pc = "enqueueSendProgrammaticAccessKeys"]

\* users.js:67-73: createUser after iam.createAccessKey has answered; the
\* notifier is called and awaited
AfterAccessKey(p, ok) ==
  IF ok
  THEN [p EXCEPT !.cred = "done", !.notif = "pending",
                 !.pc = "enqueueSendProgrammaticAccessKeys"]
  ELSE [p EXCEPT !.cred = "failed", !.pc = "rejected"]

AfterKeysNotifiedIgnoringFailure(p, ok) ==
  [p EXCEPT !.notif = IF ok THEN "done" ELSE "failed", !.pc = "resolved"]

\* users.js:73-74: the awaited notifier has answered; createUser returns
\* createUserResponse, or rejects with the notifier
AfterKeysNotified(p, ok) ==
  IF ok
  THEN [p EXCEPT !.notif = "done", !.pc = "resolved"]
  ELSE [p EXCEPT !.notif = "failed", !.pc = "rejected"]

\* users.js:77-85: createUser after iam.createLoginProfile has answered; the
\* notifier is called, not awaited, and createUser returns createUserResponse
AfterLoginProfile(p, ok) ==
  IF ok
  THEN [p EXCEPT !.cred = "done", !.notif = "pending", !.pc = "resolved"]
  ELSE [p EXCEPT !.cred = "failed", !.pc = "rejected"]

AfterEmailFailureRejects(p, ok) ==
  IF ok THEN [p EXCEPT !.notif = "done"]
  ELSE [p EXCEPT !.notif = "failed", !.pc = "rejected"]

\* users.js:84: the promise of the notifier settles; nothing reads it
AfterEmail(p, ok) == [p EXCEPT !.notif = IF ok THEN "done" ELSE "failed"]

\* the credential call a step of invocation i issues
CredentialCalls(p, q, i) ==
  IF q.cred = "pending" /\ p.cred = "none" THEN {CredentialRequest(p.name, i)} ELSE {}

\* the notifier call a step of invocation i issues
NotifierCalls(p, q, i) ==
  IF q.notif = "pending" /\ p.notif = "none"
  THEN {Call(Notifier(p.name), p.name, <<"createUser", i>>)}
  ELSE {}

\* users.js:60-77: the response to iam.createUser
CreateUserResponds(i, ok) ==
  /\ i \in 1..Len(cproc)
  /\ cproc[i].pc = "createUser"
  /\ LET p == cproc[i]
         q == AfterCreateUser(p, ok)
     IN  /\ cproc' = [cproc EXCEPT ![i] = q]
         /\ calls' = calls \cup CredentialCalls(p, q, i)
  /\ UNCHANGED <<pvars, USERS_PATH, desired, live, usersToAdd, usersToDelete, dproc>>
  /\ SettleUpdate

\* users.js:67-74: the response to iam.createAccessKey
CreateAccessKeyResponds(i, ok) ==
  /\ i \in 1..Len(cproc)
  /\ cproc[i].pc = "createAccessKey"
  /\ LET p == cproc[i]
         q == AfterAccessKey(p, ok)
     IN  /\ cproc' = [cproc EXCEPT ![i] = q]
         /\ calls' = calls \cup NotifierCalls(p, q, i)
  /\ UNCHANGED <<pvars, USERS_PATH, desired, live, usersToAdd, usersToDelete, dproc>>
  /\ SettleUpdate

\* users.js:73-74: the awaited notifier answers
EnqueueKeysResponds(i, ok) ==
  /\ i \in 1..Len(cproc)
  /\ cproc[i].pc = "enqueueSendProgrammaticAccessKeys"
  /\ cproc' = [cproc EXCEPT ![i] = AfterKeysNotified(cproc[i], ok)]
  /\ UNCHANGED <<pvars, USERS_PATH, desired, live, usersToAdd, usersToDelete, dproc, calls>>
  /\ SettleUpdate

\* users.js:25-31 and 77-85: the response to iam.createLoginProfile; the
\* notifier is called and not awaited
CreateLoginProfileResponds(i, ok) ==
  /\ i \in 1..Len(cproc)
  /\ cproc[i].pc = "createLoginProfile"
  /\ LET p == cproc[i]
         q == AfterLoginProfile(p, ok)
     IN  /\ cproc' = [cproc EXCEPT ![i] = q]
         /\ calls' = calls \cup NotifierCalls(p, q, i)
  /\ UNCHANGED <<pvars, USERS_PATH, desired, live, usersToAdd, usersToDelete, dproc>>
  /\ SettleUpdate

\* users.js:84: the notifier that was not awaited answers
EnqueueEmailResponds(i, ok) ==
  /\ i \in 1..Len(cproc)
  /\ Notifier(cproc[i].name) = "enqueueSendUserCredentialsEmail"
  /\ cproc[i].notif = "pending"
  /\ cproc' = [cproc EXCEPT ![i] = AfterEmail(cproc[i], ok)]
  /\ UNCHANGED <<pvars, USERS_PATH, desired, live, usersToAdd, usersToDelete, dproc, calls>>
  /\ SettleUpdate

----------------------------------------------------------------------------
(* Users.deleteUser *)

\* users.js:121
StartDeleteUser(UserName) ==
  [name |-> UserName, pc |-> "listGroupsForUser",
   groups |-> <<>>, grp |-> <<>>, cred |-> "none", keys |-> <<>>, key |-> <<>>,
   resp |-> NoResp]

AllPending(s) == [i \in 1..Len(s) |-> "pending"]

\* users.js:123-127
GroupRemovalCalls(UserName, gs, j) ==
  {[op |-> "removeUserFromGroup", UserName |-> UserName, GroupName |-> gs[k],
    by |-> <<"deleteUser", j>>] : k \in 1..Len(gs)}

\* users.js:103-106
KeyDeletionCalls(UserName, ks, j) ==
  {[op |-> "deleteAccessKey", UserName |-> UserName, AccessKeyId |-> ks[k],
    by |-> <<"deleteUser", j>>] : k \in 1..Len(ks)}

CredentialRemovalAlwaysProfile(UserName) == "deleteLoginProfile"

\* users.js:129-133: which credential removal deleteUser awaits
CredentialRemoval(UserName) ==
  IF EndsWithKeys(UserName) THEN "listAccessKeys" ELSE "deleteLoginProfile"

AfterCredentialsNoWait(p) == [p EXCEPT !.cred = "done", !.pc = "deleteUser"]

\* users.js:130-136: the awaited credential removal has resolved; await
\* Promise.all(groupRemovalPromises), then iam.deleteUser
AfterCredentials(p) ==
  IF "failed" \in Range(p.grp) THEN [p EXCEPT !.cred = "done", !.pc = "rejected"]
  ELSE IF "pending" \in Range(p.grp) THEN [p EXCEPT !.cred = "done", !.pc = "groupRemovals"]
  ELSE [p EXCEPT !.cred = "done", !.pc = "deleteUser"]

\* users.js:135-136: a group removal settles while deleteUser awaits them
AfterGroupRemoval(p) ==
  IF "failed" \in Range(p.grp) THEN [p EXCEPT !.pc = "rejected"]
  ELSE IF "pending" \in Range(p.grp) THEN p
  ELSE [p EXCEPT !.pc = "deleteUser"]

CredentialsFailedIgnored(p) ==
  IF "pending" \in Range(p.grp) THEN [p EXCEPT !.cred = "failed", !.pc = "groupRemovals"]
  ELSE [p EXCEPT !.cred = "failed", !.pc = "deleteUser"]

\* users.js:130-132: the awaited credential removal has rejected
CredentialsFailed(p) == [p EXCEPT !.cred = "failed", !.pc = "rejected"]

\* the iam.deleteUser call a step of invocation j issues
DeleteUserCalls(p, q, j) ==
  IF q.pc = "deleteUser" /\ p.pc # "deleteUser"
  THEN {Call("deleteUser", p.name, <<"deleteUser", j>>)}
  ELSE {}

\* The answers of listGroupsForUser and listAccessKeys.  Inside update, where
\* the invocations of a whole batch interleave, a deleted user is in at most one
\* group and holds at most one key; deleteUser with more of them is covered
\* when it is called on its own.
GroupListings ==
  IF updPc = "none" THEN Listings(GroupPool, MaxGroups) ELSE {<<>>, <<GroupPool[1]>>}

KeyListings ==
  IF updPc = "none" THEN Listings(KeyPool, MaxKeys) ELSE {<<>>, <<KeyPool[1]>>}

\* users.js:121-133: the response to iam.listGroupsForUser
ListGroupsForUserResponds(j, ok, gs) ==
  /\ j \in 1..Len(dproc)
  /\ dproc[j].pc = "listGroupsForUser"
  /\ LET p == dproc[j]
     IN  IF ok
         THEN /\ dproc' = [dproc EXCEPT ![j] =
                    [p EXCEPT !.groups = gs, !.grp = AllPending(gs), !.cred = "pending",
                              !.pc = CredentialRemoval(p.name)]]
              /\ calls' = calls \cup GroupRemovalCalls(p.name, gs, j)
                                \cup {Call(CredentialRemoval(p.name), p.name, <<"deleteUser", j>>)}
         ELSE /\ gs = <<>>
              /\ dproc' = [dproc EXCEPT ![j].pc = "rejected"]
              /\ calls' = calls
  /\ UNCHANGED <<pvars, USERS_PATH, desired, live, usersToAdd, usersToDelete, cproc>>
  /\ SettleUpdate

\* users.js:126 and 135-136: one removeUserFromGroup promise settles
RemoveUserFromGroupResponds(j, k, ok) ==
  /\ j \in 1..Len(dproc)
  /\ k \in 1..Len(dproc[j].grp)
  /\ dproc[j].grp[k] = "pending"
  /\ LET p == [dproc[j] EXCEPT !.grp[k] = IF ok THEN "done" ELSE "failed"]
         q == IF p.pc = "groupRemovals" THEN AfterGroupRemoval(p) ELSE p
     IN  /\ dproc' = [dproc EXCEPT ![j] = q]
         /\ calls' = calls \cup DeleteUserCalls(p, q, j)
  /\ UNCHANGED <<pvars, USERS_PATH, desired, live, usersToAdd, usersToDelete, cproc>>
  /\ SettleUpdate

\* users.js:102-108: the response to iam.listAccessKeys
ListAccessKeysResponds(j, ok, ks) ==
  /\ j \in 1..Len(dproc)
  /\ dproc[j].pc = "listAccessKeys"
  /\ LET p == dproc[j]
         listed == [p EXCEPT !.keys = ks, !.key = AllPending(ks), !.pc = "deleteAccessKeys"]
         q == IF ~ok THEN CredentialsFailed(p)
              ELSE IF ks = <<>> THEN AfterCredentials(listed)
              ELSE listed
     IN  /\ ~ok => ks = <<>>
         /\ dproc' = [dproc EXCEPT ![j] = q]
         /\ calls' = calls \cup (IF ok THEN KeyDeletionCalls(p.name, ks, j) ELSE {})
                           \cup DeleteUserCalls(p, q, j)
  /\ UNCHANGED <<pvars, USERS_PATH, desired, live, usersToAdd, usersToDelete, cproc>>
  /\ SettleUpdate

\* users.js:103-108 and 130: one deleteAccessKey promise settles
DeleteAccessKeyResponds(j, k, ok) ==
  /\ j \in 1..Len(dproc)
  /\ k \in 1..Len(dproc[j].key)
  /\ dproc[j].key[k] = "pending"
  /\ LET p == [dproc[j] EXCEPT !.key[k] = IF ok THEN "done" ELSE "failed"]
         q == IF p.pc # "deleteAccessKeys" THEN p
              ELSE IF ~ok THEN CredentialsFailed(p)
              ELSE IF "pending" \in Range(p.key) THEN p
              ELSE AfterCredentials(p)
     IN  /\ dproc' = [dproc EXCEPT ![j] = q]
         /\ calls' = calls \cup DeleteUserCalls(p, q, j)
  /\ UNCHANGED <<pvars, USERS_PATH, desired, live, usersToAdd, usersToDelete, cproc>>
  /\ SettleUpdate

\* users.js:97-99 and 132: the response to iam.deleteLoginProfile
DeleteLoginProfileResponds(j, ok) ==
  /\ j \in 1..Len(dproc)
  /\ dproc[j].pc = "deleteLoginProfile"
  /\ LET p == dproc[j]
         q == IF ok THEN AfterCredentials(p) ELSE CredentialsFailed(p)
     IN  /\ dproc' = [dproc EXCEPT ![j] = q]
         /\ calls' = calls \cup DeleteUserCalls(p, q, j)
  /\ UNCHANGED <<pvars, USERS_PATH, desired, live, usersToAdd, usersToDelete, cproc>>
  /\ SettleUpdate

\* users.js:136: the response to iam.deleteUser
DeleteUserResponds(j, ok) ==
  /\ j \in 1..Len(dproc)
  /\ dproc[j].pc = "deleteUser"
  /\ LET p == dproc[j]
     IN  dproc' = [dproc EXCEPT ![j] =
           IF ok THEN [p EXCEPT !.pc = "resolved",
                                !.resp = [of |-> "deleteUser", UserName |-> p.name]]
           ELSE [p EXCEPT !.pc = "rejected"]]
  /\ UNCHANGED <<pvars, USERS_PATH, desired, live, usersToAdd, usersToDelete, cproc, calls>>
  /\ SettleUpdate

----------------------------------------------------------------------------
(* Users.update *)

CreateUserPromisesFirstOnly(toAdd) ==
  [i \in 1..Min(1, Len(toAdd)) |-> StartCreateUser(toAdd[i])]

\* users.js:166-171: createUser is called for every entry of usersToAdd
CreateUserPromises(toAdd) == [i \in 1..Len(toAdd) |-> StartCreateUser(toAdd[i])]

\* users.js:173-178: deleteUser is called for every entry of usersToDelete
DeleteUserPromises(toDelete) == [j \in 1..Len(toDelete) |-> StartDeleteUser(toDelete[j])]

\* users.js:146-151: update is invoked and awaits iam.listUsers
Update ==
  /\ updPc = "idle"
  /\ updPc' = "listUsers"
  /\ calls' = calls \cup {[op |-> "listUsers", PathPrefix |-> USERS_PATH]}
  /\ UNCHANGED <<pvars, USERS_PATH, desired, live, updResult, usersToAdd, usersToDelete, cproc, dproc>>

\* users.js:153-183: the response to iam.listUsers, the diff and both fan-outs
ListUsersResponds(ok) ==
  /\ updPc = "listUsers"
  /\ IF ok
     THEN /\ usersToAdd' = Difference(desired, live)
          /\ usersToDelete' = Difference(live, desired)
          /\ cproc' = CreateUserPromises(usersToAdd')
          /\ dproc' = DeleteUserPromises(usersToDelete')
          /\ calls' = calls
               \cup {CreateUserCall(cproc'[i].name, i) : i \in 1..Len(cproc')}
               \cup {Call("listGroupsForUser", dproc'[j].name, <<"deleteUser", j>>) :
                       j \in 1..Len(dproc')}
          /\ updPc' = Settle("awaiting", cproc', dproc')
          /\ updResult' = IF updPc' = "resolved" THEN <<Resps(cproc'), Resps(dproc')>>
                          ELSE updResult
     ELSE /\ updPc' = "rejected"
          /\ UNCHANGED <<updResult, usersToAdd, usersToDelete, cproc, dproc, calls>>
  /\ UNCHANGED <<pvars, USERS_PATH, desired, live>>

\* createUser called on its own, users.js:57-63
CallCreateUser(UserName) ==
  /\ updPc = "none" /\ cproc = <<>> /\ dproc = <<>>
  /\ cproc' = <<StartCreateUser(UserName)>>
  /\ calls' = calls \cup {CreateUserCall(UserName, 1)}
  /\ UNCHANGED <<pvars, USERS_PATH, desired, live, updPc, updResult, usersToAdd, usersToDelete, dproc>>

\* deleteUser called on its own, users.js:119-121
CallDeleteUser(UserName) ==
  /\ updPc = "none" /\ cproc = <<>> /\ dproc = <<>>
  /\ dproc' = <<StartDeleteUser(UserName)>>
  /\ calls' = calls \cup {Call("listGroupsForUser", UserName, <<"deleteUser", 1>>)}
  /\ UNCHANGED <<pvars, USERS_PATH, desired, live, updPc, updResult, usersToAdd, usersToDelete, cproc>>

\* the continuations of every createUser and deleteUser invocation in flight
UserSteps ==
  \/ \E i \in 1..Len(cproc), ok \in BOOLEAN : CreateUserResponds(i, ok)
  \/ \E i \in 1..Len(cproc), ok \in BOOLEAN : CreateAccessKeyResponds(i, ok)
  \/ \E i \in 1..Len(cproc), ok \in BOOLEAN : EnqueueKeysResponds(i, ok)
  \/ \E i \in 1..Len(cproc), ok \in BOOLEAN : CreateLoginProfileResponds(i, ok)
  \/ \E i \in 1..Len(cproc), ok \in BOOLEAN : EnqueueEmailResponds(i, ok)
  \/ \E j \in 1..Len(dproc), ok \in BOOLEAN, gs \in GroupListings :
       ListGroupsForUserResponds(j, ok, gs)
  \/ \E j \in 1..Len(dproc), k \in 1..Len(GroupPool), ok \in BOOLEAN :
       RemoveUserFromGroupResponds(j, k, ok)
  \/ \E j \in 1..Len(dproc), ok \in BOOLEAN, ks \in KeyListings :
       ListAccessKeysResponds(j, ok, ks)
  \/ \E j \in 1..Len(dproc), k \in 1..Len(KeyPool), ok \in BOOLEAN :
       DeleteAccessKeyResponds(j, k, ok)
  \/ \E j \in 1..Len(dproc), ok \in BOOLEAN : DeleteLoginProfileResponds(j, ok)
  \/ \E j \in 1..Len(dproc), ok \in BOOLEAN : DeleteUserResponds(j, ok)

UsersQuiet ==
  /\ updResult = <<>> /\ usersToAdd = <<>> /\ usersToDelete = <<>>
  /\ cproc = <<>> /\ dproc = <<>> /\ calls = {}

PoliciesQuiet ==
  /\ polResult = <<>> /\ kproc = <<>> /\ rproc = <<>> /\ pcalls = {}
  /\ eproc = <<>> /\ gproc = <<>>

PoliciesAbsent ==
  /\ policies = <<>> /\ livePolicies = <<>> /\ polPc = "none"
  /\ PoliciesQuiet

\* Users.update on every desired list within the bounds, and every live
\* listing within them, in the order of LivePool
Init ==
  /\ USERS_PATH = ""
  /\ desired \in SeqsUpTo(UpdateNames, MaxDesired)
  /\ live \in Listings(LivePool, MaxLive)
  /\ updPc = "idle"
  /\ UsersQuiet
  /\ PoliciesAbsent

Next ==
  \/ Update
  \/ \E ok \in BOOLEAN : ListUsersResponds(ok)
  \/ UserSteps

Spec == Init /\ [][Next]_vars

\* the users of json.users in the runs that are checked for termination
DesiredPool == <<"alice", "bob_keys", "carol">>

\* Users.update on desired lists and live listings in the order of their pools
InitLive ==
  /\ USERS_PATH = ""
  /\ desired \in Listings(DesiredPool, MaxDesired)
  /\ live \in Listings(LivePool, MaxLive)
  /\ updPc = "idle"
  /\ UsersQuiet
  /\ PoliciesAbsent

\* Users.update when every call that was issued is answered: the listing, and
\* the calls of the createUser and deleteUser invocations as long as one is in
\* flight
SpecLive ==
  /\ InitLive
  /\ [][Next]_vars
  /\ WF_vars(\E ok \in BOOLEAN : ListUsersResponds(ok))
  /\ WF_vars(UserSteps)

\* createUser or deleteUser called on its own, with any name
InitUser ==
  /\ USERS_PATH = ""
  /\ desired = <<>> /\ live = <<>>
  /\ updPc = "none"
  /\ UsersQuiet
  /\ PoliciesAbsent

NextUser ==
  \/ \E u \in CallNames : CallCreateUser(u)
  \/ \E u \in CallNames : CallDeleteUser(u)
  \/ UserSteps

SpecUser == InitUser /\ [][NextUser]_vars

----------------------------------------------------------------------------
(* Policies, src/unnamed/part_000 *)

MaxPolicies == 2        \* length of json.policies

Paths == {"", "/path"}

\* JSON values: a string, or an object with one member holding a string
Str(cs) == [t |-> "string", v |-> cs]

Obj(k, cs) == [t |-> "object", k |-> k, v |-> cs]

Documents ==
  { Str(<<"d", "o", "c">>),
    Str(<<"a", "\"", "b">>),
    Obj(<<"V">>, <<"1">>) }

PolicyNames == {"1", "first", "policyName"}

\* part_000:18-27
LivePolicyPool ==
  { [PolicyName |-> "first", Arn |-> "123"],
    [PolicyName |-> "second", Arn |-> "1234"] }

Arns == {"123", "1234", "ARN"}

\* JSON.stringify of the characters of a string: '"' and '\' are escaped
RECURSIVE Escape(_)
Escape(cs) ==
  IF cs = <<>> THEN <<>>
  ELSE (IF Head(cs) \in {"\"", "\\"} THEN <<"\\", Head(cs)>> ELSE <<Head(cs)>>)
       \o Escape(Tail(cs))

Quote(cs) == <<"\"">> \o Escape(cs) \o <<"\"">>

JSONStringifyIdentity(d) == d

\* JSON.stringify(document): always a string
JSONStringify(d) ==
  Str(IF d.t = "string" THEN Quote(d.v)
      ELSE <<"{">> \o Quote(d.k) \o <<":">> \o Quote(d.v) \o <<"}">>)

CreatePolicyRequestSerializing(PolicyName, PolicyDocument) ==
  [PolicyName |-> PolicyName, PolicyDocument |-> JSONStringify(PolicyDocument),
   Path |-> USERS_PATH]

\* part_000:37-52: the request createPolicy(name, document) sends
CreatePolicyRequest(PolicyName, PolicyDocument) ==
  [PolicyName |-> PolicyName, PolicyDocument |-> PolicyDocument, Path |-> USERS_PATH]

UpdateDocumentAsGiven(policy) == policy.document

\* part_000:96-106: the document update hands to createPolicy
UpdateDocument(policy) == JSONStringify(policy.document)

\* createPolicy is invoked: the remote createPolicy call is issued
StartCreatePolicy(PolicyName, PolicyDocument) ==
  [name |-> PolicyName, document |-> PolicyDocument,
   req |-> CreatePolicyRequest(PolicyName, PolicyDocument),
   pc |-> "createPolicy", resp |-> <<>>]

\* removePolicy is invoked: detachFromAllEntities lists the attached entities
StartRemovePolicy(PolicyArn) ==
  [arn |-> PolicyArn, pc |-> "listEntitiesForPolicy", list |-> "pending",
   groups |-> <<>>, det |-> <<>>, resp |-> <<>>]

CreatePolicyCall(p, i) == [op |-> "createPolicy", req |-> p.req, by |-> <<"createPolicy", i>>]

PolicyCall(op, PolicyArn, j) == [op |-> op, PolicyArn |-> PolicyArn, by |-> <<"removePolicy", j>>]

DetachCallsFirstGroupOnly(PolicyArn, gs, j) ==
  {[op |-> "detachGroupPolicy", GroupName |-> gs[k], PolicyArn |-> PolicyArn,
    by |-> <<"removePolicy", j>>] : k \in 1..Min(1, Len(gs))}

\* part_000:69-81: one detachGroupPolicy request per listed group
DetachCalls(PolicyArn, gs, j) ==
  {[op |-> "detachGroupPolicy", GroupName |-> gs[k], PolicyArn |-> PolicyArn,
    by |-> <<"removePolicy", j>>] : k \in 1..Len(gs)}

PResps(procs) == [i \in 1..Len(procs) |-> procs[i].resp[1]]

SettlePolicies ==
  /\ polPc' = Settle(polPc, kproc', rproc')
  /\ polResult' = IF polPc' = "resolved" /\ polPc # "resolved"
                  THEN <<[createResult |-> PResps(kproc'), deleteResult |-> PResps(rproc')]>>
                  ELSE polResult

\* The answers of listEntitiesForPolicy; inside update a policy is attached to
\* at most one group.
PolicyGroupListings ==
  IF polPc = "none" THEN Listings(GroupPool, MaxGroups) ELSE {<<>>, <<GroupPool[1]>>}

\* part_000:12: the response to iam.createPolicy (the answer repeats the request)
CreatePolicyResponds(i, ok) ==
  /\ i \in 1..Len(kproc)
  /\ kproc[i].pc = "createPolicy"
  /\ kproc' = [kproc EXCEPT ![i] =
        IF ok THEN [kproc[i] EXCEPT !.pc = "resolved", !.resp = <<kproc[i].req>>]
        ELSE [kproc[i] EXCEPT !.pc = "rejected"]]
  /\ UNCHANGED <<uvars, USERS_PATH, eproc, gproc, policies, livePolicies, rproc, pcalls>>
  /\ SettlePolicies

DetachedNoWait(p) == [p EXCEPT !.pc = "deletePolicy"]

DetachedIgnoringFailures(p) ==
  IF "pending" \in Range(p.det) THEN p ELSE [p EXCEPT !.pc = "deletePolicy"]

\* removePolicy after detachFromAllEntities: Promise.all of the detach calls,
\* then iam.deletePolicy
Detached(p) ==
  IF "failed" \in Range(p.det) THEN [p EXCEPT !.pc = "rejected"]
  ELSE IF "pending" \in Range(p.det) THEN p
  ELSE [p EXCEPT !.pc = "deletePolicy"]

DeletePolicyCalls(p, q, j) ==
  IF q.pc = "deletePolicy" /\ p.pc # "deletePolicy"
  THEN {PolicyCall("deletePolicy", p.arn, j)}
  ELSE {}

\* part_000:15-17: the response to iam.listEntitiesForPolicy; the detach calls
\* are issued together
ListEntitiesForPolicyResponds(j, ok, gs) ==
  /\ j \in 1..Len(rproc)
  /\ rproc[j].pc = "listEntitiesForPolicy"
  /\ LET p == rproc[j]
         q == IF ok
              THEN Detached([p EXCEPT !.list = "done", !.groups = gs,
                                      !.det = AllPending(gs), !.pc = "detachGroupPolicy"])
              ELSE [p EXCEPT !.list = "failed", !.pc = "rejected"]
     IN  /\ ~ok => gs = <<>>
         /\ rproc' = [rproc EXCEPT ![j] = q]
         /\ pcalls' = pcalls \cup (IF ok THEN DetachCalls(p.arn, gs, j) ELSE {})
                             \cup DeletePolicyCalls(p, q, j)
  /\ UNCHANGED <<uvars, USERS_PATH, eproc, gproc, policies, livePolicies, kproc>>
  /\ SettlePolicies

\* part_000:14: one detachGroupPolicy promise settles
DetachGroupPolicyResponds(j, k, ok) ==
  /\ j \in 1..Len(rproc)
  /\ k \in 1..Len(rproc[j].det)
  /\ rproc[j].det[k] = "pending"
  /\ LET p == [rproc[j] EXCEPT !.det[k] = IF ok THEN "done" ELSE "failed"]
         q == IF p.pc = "detachGroupPolicy" THEN Detached(p) ELSE p
     IN  /\ rproc' = [rproc EXCEPT ![j] = q]
         /\ pcalls' = pcalls \cup DeletePolicyCalls(p, q, j)
  /\ UNCHANGED <<uvars, USERS_PATH, eproc, gproc, policies, livePolicies, kproc>>
  /\ SettlePolicies

\* part_000:13 and 83-92: the response to iam.deletePolicy (the answer repeats
\* the request)
DeletePolicyResponds(j, ok) ==
  /\ j \in 1..Len(rproc)
  /\ rproc[j].pc = "deletePolicy"
  /\ rproc' = [rproc EXCEPT ![j] =
        IF ok THEN [rproc[j] EXCEPT !.pc = "resolved",
                                    !.resp = <<[PolicyArn |-> rproc[j].arn]>>]
        ELSE [rproc[j] EXCEPT !.pc = "rejected"]]
  /\ UNCHANGED <<uvars, USERS_PATH, eproc, gproc, policies, livePolicies, kproc, pcalls>>
  /\ SettlePolicies

\* createPolicy called on its own (update is not invoked), part_000:45
CallCreatePolicy(PolicyName, PolicyDocument) ==
  /\ polPc = "idle"
  /\ polPc' = "none"
  /\ kproc' = <<StartCreatePolicy(PolicyName, PolicyDocument)>>
  /\ pcalls' = pcalls \cup {CreatePolicyCall(kproc'[1], 1)}
  /\ UNCHANGED <<uvars, USERS_PATH, eproc, gproc, policies, livePolicies, polResult, rproc>>

\* removePolicy called on its own (update is not invoked), part_000:87
CallRemovePolicy(PolicyArn) ==
  /\ polPc = "idle"
  /\ polPc' = "none"
  /\ rproc' = <<StartRemovePolicy(PolicyArn)>>
  /\ pcalls' = pcalls \cup {PolicyCall("listEntitiesForPolicy", PolicyArn, 1)}
  /\ UNCHANGED <<uvars, USERS_PATH, eproc, gproc, policies, livePolicies, polResult, kproc>>

----------------------------------------------------------------------------
(* Policies.detachFromAllEntities called on its own, part_000:69-81 *)

DetachResultsReversed(PolicyArn, gs) ==
  [k \in 1..Len(gs) |-> [GroupName |-> gs[Len(gs) + 1 - k], PolicyArn |-> PolicyArn]]

\* part_000:14 and 73-78: the answers of the detach calls, in the order of the
\* groups (an answer repeats its request)
DetachResults(PolicyArn, gs) ==
  [k \in 1..Len(gs) |-> [GroupName |-> gs[k], PolicyArn |-> PolicyArn]]

StartDetachFromAllEntities(PolicyArn) ==
  [arn |-> PolicyArn, pc |-> "listEntitiesForPolicy", list |-> "pending",
   groups |-> <<>>, det |-> <<>>, resp |-> <<>>]

\* a call of the invocation of detachFromAllEntities
EntitiesCall(c) == [c EXCEPT !.by = <<"detachFromAllEntities", 1>>]

\* Promise.all of the detach calls: detachFromAllEntities resolves with their
\* answers, or rejects with the first that fails
AllDetached(p) ==
  IF "failed" \in Range(p.det) THEN [p EXCEPT !.pc = "rejected"]
  ELSE IF "pending" \in Range(p.det) THEN p
  ELSE [p EXCEPT !.pc = "resolved", !.resp = <<DetachResults(p.arn, p.groups)>>]

\* part_000:73
CallDetachFromAllEntities(PolicyArn) ==
  /\ polPc = "idle"
  /\ polPc' = "none"
  /\ eproc' = <<StartDetachFromAllEntities(PolicyArn)>>
  /\ pcalls' = pcalls \cup {EntitiesCall(PolicyCall("listEntitiesForPolicy", PolicyArn, 1))}
  /\ UNCHANGED <<uvars, USERS_PATH, gproc, policies, livePolicies, polResult, kproc, rproc>>

\* part_000:15-17: the response to iam.listEntitiesForPolicy; the detach calls
\* are issued together
EntitiesListed(ok, gs) ==
  /\ Len(eproc) = 1
  /\ eproc[1].pc = "listEntitiesForPolicy"
  /\ LET p == eproc[1]
         q == IF ok
              THEN AllDetached([p EXCEPT !.list = "done", !.groups = gs,
                                         !.det = AllPending(gs), !.pc = "detachGroupPolicy"])
              ELSE [p EXCEPT !.list = "failed", !.pc = "rejected"]
     IN  /\ ~ok => gs = <<>>
         /\ eproc' = <<q>>
         /\ pcalls' = pcalls \cup
              (IF ok THEN {EntitiesCall(c) : c \in DetachCalls(p.arn, gs, 1)} ELSE {})
  /\ UNCHANGED <<uvars, USERS_PATH, gproc, policies, livePolicies, polPc, polResult, kproc, rproc>>

\* part_000:14: one detachGroupPolicy promise settles
EntityDetached(k, ok) ==
  /\ Len(eproc) = 1
  /\ k \in 1..Len(eproc[1].det)
  /\ eproc[1].det[k] = "pending"
  /\ LET p == [eproc[1] EXCEPT !.det[k] = IF ok THEN "done" ELSE "failed"]
     IN  eproc' = <<IF p.pc = "detachGroupPolicy" THEN AllDetached(p) ELSE p>>
  /\ UNCHANGED <<uvars, USERS_PATH, gproc, policies, livePolicies, polPc, polResult, kproc,
                 rproc, pcalls>>

----------------------------------------------------------------------------
(* Policies.getPolicy, part_000:54-67 *)

\* the records listPolicies may answer getPolicy with: those of part_000:18-27
\* and a second policy named 'first'
ListedPolicyPool ==
  { [PolicyName |-> "first", Arn |-> "123", data |-> 1],
    [PolicyName |-> "second", Arn |-> "1234"],
    [PolicyName |-> "first", Arn |-> "12345"] }

PolicyListings ==
  {s \in SeqsUpTo(ListedPolicyPool, Cardinality(ListedPolicyPool)) : Injective(s)}

GetPolicyFirstMatchOnly(PolicyName, listed) ==
  LET found == SelectSeq(listed, LAMBDA r : r.PolicyName = PolicyName)
  IN  IF found = <<>> THEN <<>> ELSE <<found[1]>>

\* part_000:58-64: the records of the listing named PolicyName
GetPolicy(PolicyName, listed) == SelectSeq(listed, LAMBDA r : r.PolicyName = PolicyName)

\* part_000:58: getPolicy is invoked and awaits iam.listPolicies
CallGetPolicy(PolicyName) ==
  /\ polPc = "idle"
  /\ polPc' = "none"
  /\ gproc' = <<[name |-> PolicyName, pc |-> "listPolicies", listed |-> <<>>, resp |-> <<>>]>>
  /\ pcalls' = pcalls \cup {[op |-> "listPolicies", by |-> <<"getPolicy", 1>>]}
  /\ UNCHANGED <<uvars, USERS_PATH, eproc, policies, livePolicies, polResult, kproc, rproc>>

\* part_000:18-27: the response to iam.listPolicies
GetPolicyListed(ok, listed) ==
  /\ Len(gproc) = 1
  /\ gproc[1].pc = "listPolicies"
  /\ ~ok => listed = <<>>
  /\ gproc' = <<IF ok
                THEN [gproc[1] EXCEPT !.pc = "resolved", !.listed = listed,
                                      !.resp = <<GetPolicy(gproc[1].name, listed)>>]
                ELSE [gproc[1] EXCEPT !.pc = "rejected"]>>
  /\ UNCHANGED <<uvars, USERS_PATH, eproc, policies, livePolicies, polPc, polResult, kproc,
                 rproc, pcalls>>

----------------------------------------------------------------------------
(* Policies.update *)

PoliciesToCreateDiffed(input, listed) ==
  SelectSeq(input, LAMBDA x : \A j \in 1..Len(listed) : listed[j].PolicyName # x.name)

\* the policies update creates: every policy of the input
PoliciesToCreate(input, listed) == input

PoliciesToRemoveDiffed(input, listed) ==
  SelectSeq(listed, LAMBDA x : \A i \in 1..Len(input) : input[i].name # x.PolicyName)

\* the policies update removes: every policy listed
PoliciesToRemove(input, listed) == listed

\* Policies.update is invoked and awaits iam.listPolicies
PoliciesUpdate ==
  /\ polPc = "idle"
  /\ polPc' = "listPolicies"
  /\ pcalls' = pcalls \cup {[op |-> "listPolicies", PathPrefix |-> USERS_PATH]}
  /\ UNCHANGED <<uvars, USERS_PATH, eproc, gproc, policies, livePolicies, polResult, kproc, rproc>>

\* part_000:94-111: the response to iam.listPolicies; every input policy is
\* created and every listed policy removed
ListPoliciesResponds(ok) ==
  /\ polPc = "listPolicies"
  /\ IF ok
     THEN /\ LET toCreate == PoliciesToCreate(policies, livePolicies)
                  toRemove == PoliciesToRemove(policies, livePolicies)
              IN  /\ kproc' = [i \in 1..Len(toCreate) |->
                        StartCreatePolicy(toCreate[i].name, UpdateDocument(toCreate[i]))]
                  /\ rproc' = [j \in 1..Len(toRemove) |-> StartRemovePolicy(toRemove[j].Arn)]
          /\ pcalls' = pcalls
               \cup {CreatePolicyCall(kproc'[i], i) : i \in 1..Len(kproc')}
               \cup {PolicyCall("listEntitiesForPolicy", rproc'[j].arn, j) : j \in 1..Len(rproc')}
          /\ polPc' = Settle("awaiting", kproc', rproc')
          /\ polResult' = IF polPc' = "resolved"
                          THEN <<[createResult |-> PResps(kproc'),
                                  deleteResult |-> PResps(rproc')]>>
                          ELSE polResult
     ELSE /\ polPc' = "rejected"
          /\ UNCHANGED <<polResult, kproc, rproc, pcalls>>
  /\ UNCHANGED <<uvars, USERS_PATH, eproc, gproc, policies, livePolicies>>

PolicySteps ==
  \/ \E i \in 1..Len(kproc), ok \in BOOLEAN : CreatePolicyResponds(i, ok)
  \/ \E j \in 1..Len(rproc), ok \in BOOLEAN, gs \in PolicyGroupListings :
       ListEntitiesForPolicyResponds(j, ok, gs)
  \/ \E j \in 1..Len(rproc), k \in 1..Len(GroupPool), ok \in BOOLEAN :
       DetachGroupPolicyResponds(j, k, ok)
  \/ \E j \in 1..Len(rproc), ok \in BOOLEAN : DeletePolicyResponds(j, ok)

UsersAbsent ==
  /\ desired = <<>> /\ live = <<>> /\ updPc = "none"
  /\ UsersQuiet

\* the policies of json.policies: part_000:96-101, one named like a live
\* policy, and one whose document is an object
PolicyInputs ==
  { [name |-> "1", document |-> Str(<<"d", "o", "c">>)],
    [name |-> "first", document |-> Str(<<"a", "\"", "b">>)],
    [name |-> "1", document |-> Obj(<<"V">>, <<"1">>)] }

\* Policies.update on every input and live listing within the bounds, or one
\* of createPolicy, removePolicy, getPolicy and detachFromAllEntities called on
\* its own
InitPolicies ==
  /\ USERS_PATH \in Paths
  /\ policies \in SeqsUpTo(PolicyInputs, MaxPolicies)
  /\ livePolicies \in {s \in SeqsUpTo(LivePolicyPool, Cardinality(LivePolicyPool)) : Injective(s)}
  /\ polPc = "idle"
  /\ PoliciesQuiet
  /\ UsersAbsent

NextPolicies ==
  \/ PoliciesUpdate
  \/ \E ok \in BOOLEAN : ListPoliciesResponds(ok)
  \/ \E n \in PolicyNames, d \in Documents : CallCreatePolicy(n, d)
  \/ \E a \in Arns : CallRemovePolicy(a)
  \/ \E n \in PolicyNames : CallGetPolicy(n)
  \/ \E ok \in BOOLEAN, listed \in PolicyListings : GetPolicyListed(ok, listed)
  \/ \E a \in Arns : CallDetachFromAllEntities(a)
  \/ \E ok \in BOOLEAN, gs \in PolicyGroupListings : EntitiesListed(ok, gs)
  \/ \E k \in 1..Len(GroupPool), ok \in BOOLEAN : EntityDetached(k, ok)
  \/ PolicySteps

SpecPolicies == InitPolicies /\ [][NextPolicies]_vars

----------------------------------------------------------------------------
(* Claims *)

\* update has computed the diff and started both fan-outs: it awaits them or
\* has settled after them (a rejection with nothing started is the listing's)
Diffed ==
  \/ updPc \in {"awaiting", "resolved"}
  \/ updPc = "rejected" /\ (cproc # <<>> \/ dproc # <<>>)

Names(procs) == {procs[i].name : i \in 1..Len(procs)}

CreateOps ==
  {"createUser", "createAccessKey", "createLoginProfile",
   "enqueueSendProgrammaticAccessKeys", "enqueueSendUserCredentialsEmail"}

DeleteOps ==
  {"listGroupsForUser", "removeUserFromGroup", "listAccessKeys", "deleteAccessKey",
   "deleteLoginProfile", "deleteUser"}

\* C1: once update has diffed, usersToAdd holds exactly the desired names that
\* are not live and usersToDelete exactly the live names that are not desired,
\* the two share no name, and at any time createUser has been started only for
\* names of the first and deleteUser only for names of the second.
C1_DiffIsSetDifference ==
  /\ Diffed =>
       /\ Range(usersToAdd) = Range(desired) \ Range(live)
       /\ Range(usersToDelete) = Range(live) \ Range(desired)
       /\ Range(usersToAdd) \cap Range(usersToDelete) = {}
  /\ Names(cproc) \subseteq Range(usersToAdd)
  /\ Names(dproc) \subseteq Range(usersToDelete)
  /\ \A c \in calls :
       /\ c.op \in CreateOps => c.UserName \in Range(desired) \ Range(live)
       /\ c.op \in DeleteOps => c.UserName \in Range(live) \ Range(desired)

\* the scenario of the specification: desired alice and bob_keys, live
\* bob_keys and carol
C1_Witness ==
  /\ desired = <<"alice", "bob_keys">>
  /\ live = <<"bob_keys", "carol">>
  /\ updPc = "awaiting"
  /\ usersToAdd = <<"alice">>
  /\ usersToDelete = <<"carol">>
  /\ Names(cproc) = {"alice"}
  /\ Names(dproc) = {"carol"}

\* the last five characters of the name are '_', 'k', 'e', 'y', 's'
LastFiveAreKeys(UserName) ==
  LET cs == Chars(UserName)
  IN  /\ Len(cs) >= 5
      /\ cs[Len(cs) - 4] = "_" /\ cs[Len(cs) - 3] = "k" /\ cs[Len(cs) - 2] = "e"
      /\ cs[Len(cs) - 1] = "y" /\ cs[Len(cs)] = "s"

CallsOf(op, UserName) == {c \in calls : c.op = op /\ c.UserName = UserName}

\* C2: a createUser invocation whose remote createUser call has succeeded has
\* called createAccessKey and never createLoginProfile when the last five
\* characters of the name are '_keys', and otherwise createLoginProfile, with
\* PasswordResetRequired = true, and never createAccessKey.
C2_OneCredentialBySuffix ==
  \A i \in 1..Len(cproc) :
    LET u == cproc[i].name
    IN  /\ LastFiveAreKeys(u) => CallsOf("createLoginProfile", u) = {}
        /\ ~LastFiveAreKeys(u) => CallsOf("createAccessKey", u) = {}
        /\ cproc[i].resp.of = "createUser" =>
             IF LastFiveAreKeys(u)
             THEN CallsOf("createAccessKey", u) # {}
             ELSE CallsOf("createLoginProfile", u) # {}
        /\ \A c \in CallsOf("createLoginProfile", u) : c.PasswordResetRequired = TRUE

\* createUser("_keys") has created its access key and resolved
C2_Witness ==
  /\ Len(cproc) = 1
  /\ cproc[1].name = "_keys"
  /\ cproc[1].pc = "resolved"
  /\ CallsOf("createAccessKey", "_keys") # {}

\* createUser("bobkeys"), whose last five characters are not '_keys', has
\* created a login profile
C2_WitnessProfile ==
  /\ Len(cproc) = 1
  /\ cproc[1].name = "bobkeys"
  /\ cproc[1].pc = "resolved"
  /\ \E c \in CallsOf("createLoginProfile", "bobkeys") : c.PasswordResetRequired

----------------------------------------------------------------------------

DeleteUserIssued(j) ==
  \E c \in calls : c.op = "deleteUser" /\ c.by = <<"deleteUser", j>>

AllDone(st) == \A k \in 1..Len(st) : st[k] = "done"

\* C3: in every deleteUser invocation the remote deleteUser call has been
\* issued only if every removeUserFromGroup call for the listed groups has
\* completed and the credential removal has completed: every listed access
\* key deleted for a '_keys' name, the login profile deleted otherwise.
C3_DeleteUserAfterGroupsAndCredentials ==
  \A j \in 1..Len(dproc) :
    DeleteUserIssued(j) =>
      /\ AllDone(dproc[j].grp)
      /\ \A k \in 1..Len(dproc[j].groups) :
           \E c \in CallsOf("removeUserFromGroup", dproc[j].name) :
             c.GroupName = dproc[j].groups[k]
      /\ dproc[j].cred = "done"
      /\ IF LastFiveAreKeys(dproc[j].name)
         THEN CallsOf("listAccessKeys", dproc[j].name) # {} /\ AllDone(dproc[j].key)
         ELSE CallsOf("deleteLoginProfile", dproc[j].name) # {}

\* both group removals have completed while the credential removal is still
\* awaited: deleteUser has not been issued
C3_Witness ==
  /\ Len(dproc) = 1
  /\ Len(dproc[1].groups) = 2
  /\ AllDone(dproc[1].grp)
  /\ dproc[1].cred = "pending"
  /\ ~DeleteUserIssued(1)

\* the other order: the credential removal has completed while a group
\* removal is still pending
C3_WitnessCredentialsFirst ==
  /\ Len(dproc) = 1
  /\ dproc[1].cred = "done"
  /\ "pending" \in Range(dproc[1].grp)
  /\ ~DeleteUserIssued(1)

\* deleteUser has been issued after two group removals and two key deletions
C3_WitnessIssued ==
  /\ Len(dproc) = 1
  /\ Len(dproc[1].groups) = 2
  /\ Len(dproc[1].keys) = 2
  /\ DeleteUserIssued(1)

----------------------------------------------------------------------------

PCallsBy(op, j) == {c \in pcalls : c.op = op /\ c.by = <<"removePolicy", j>>}

\* C4: in every removePolicy invocation whose listing has answered, a
\* detachGroupPolicy call with the policy's ARN has been issued for every
\* listed group; deletePolicy has been issued, with that ARN, only if all of
\* those detach calls have completed; and a resolved removePolicy holds the
\* deletePolicy answer for that ARN.
C4_DetachAllThenDelete ==
  \A j \in 1..Len(rproc) :
    LET p == rproc[j]
    IN  /\ p.list = "done" =>
             \A k \in 1..Len(p.groups) :
               \E c \in PCallsBy("detachGroupPolicy", j) :
                 c.GroupName = p.groups[k] /\ c.PolicyArn = p.arn
        /\ \A c \in PCallsBy("deletePolicy", j) :
             c.PolicyArn = p.arn /\ p.list = "done" /\ AllDone(p.det)
        /\ p.pc = "resolved" =>
             /\ PCallsBy("deletePolicy", j) # {}
             /\ p.resp = <<[PolicyArn |-> p.arn]>>

\* the test's removePolicy('ARN') with both groups of the mock attached
C4_Witness ==
  /\ Len(rproc) = 1
  /\ rproc[1].arn = "ARN"
  /\ rproc[1].groups = <<"g_first", "g_second">>
  /\ rproc[1].pc = "resolved"
  /\ rproc[1].resp = <<[PolicyArn |-> "ARN"]>>

\* C9: a removePolicy invocation whose listing failed, or one of whose detach
\* calls failed, has rejected and has issued no deletePolicy call.
C9_DetachFailureAbortsDelete ==
  \A j \in 1..Len(rproc) :
    (rproc[j].list = "failed" \/ "failed" \in Range(rproc[j].det)) =>
      /\ rproc[j].pc = "rejected"
      /\ PCallsBy("deletePolicy", j) = {}

\* one detach call failed, the other completed: removePolicy has rejected
C9_Witness ==
  /\ Len(rproc) = 1
  /\ rproc[1].det = <<"failed", "done">>
  /\ rproc[1].pc = "rejected"

\* the listing failed: removePolicy has rejected
C9_WitnessListing ==
  /\ Len(rproc) = 1
  /\ rproc[1].list = "failed"
  /\ rproc[1].pc = "rejected"

\* C7: createPolicy(name, document) called on its own sends, and resolves
\* with, a request whose Path is the value of USERS_PATH, whose PolicyName is
\* name and whose PolicyDocument is the document as it was passed.
C7_CreatePolicyPassesDocument ==
  \A i \in 1..Len(kproc) :
    LET p == kproc[i]
        sent == [PolicyName |-> p.name, PolicyDocument |-> p.document, Path |-> USERS_PATH]
    IN  /\ \A c \in pcalls : (c.op = "createPolicy" /\ c.by = <<"createPolicy", i>>) => c.req = sent
        /\ p.pc = "resolved" => p.resp = <<sent>>

\* the test: createPolicy('policyName', 'doc') under USERS_PATH = '/path'
\* resolves with PolicyDocument 'doc'
C7_Witness ==
  /\ USERS_PATH = "/path"
  /\ Len(kproc) = 1
  /\ kproc[1].name = "policyName"
  /\ kproc[1].document = Str(<<"d", "o", "c">>)
  /\ kproc[1].pc = "resolved"
  /\ kproc[1].resp[1].PolicyDocument = Str(<<"d", "o", "c">>)
  /\ kproc[1].resp[1].Path = "/path"

----------------------------------------------------------------------------

\* Policies.update has started both fan-outs
PoliciesFanned ==
  \/ polPc \in {"awaiting", "resolved"}
  \/ polPc = "rejected" /\ (kproc # <<>> \/ rproc # <<>>)

\* the JSON text of the documents of PolicyInputs, written out
ExpectedJson(d) ==
  CASE d = Str(<<"d", "o", "c">>)   -> Str(<<"\"", "d", "o", "c", "\"">>)
    [] d = Str(<<"a", "\"", "b">>)  -> Str(<<"\"", "a", "\\", "\"", "b", "\"">>)
    [] d = Obj(<<"V">>, <<"1">>)    -> Str(<<"{", "\"", "V", "\"", ":", "\"", "1", "\"", "}">>)

\* C5: once update has fanned out there is one createPolicy invocation, with
\* its remote call issued, per policy of json.policies, in input order, and
\* one removePolicy invocation per listed policy, in listing order, whether
\* or not a name is on both sides; a resolved update returns one create
\* answer per input policy and one delete answer per listed policy, in order.
C5_UpdateCreatesAllRemovesAll ==
  /\ PoliciesFanned =>
       /\ Len(kproc) = Len(policies)
       /\ \A i \in 1..Len(policies) :
            /\ kproc[i].name = policies[i].name
            /\ \E c \in pcalls : c.op = "createPolicy" /\ c.by = <<"createPolicy", i>>
       /\ Len(rproc) = Len(livePolicies)
       /\ \A j \in 1..Len(livePolicies) :
            /\ rproc[j].arn = livePolicies[j].Arn
            /\ PCallsBy("listEntitiesForPolicy", j) # {}
  /\ polPc = "resolved" =>
       /\ Len(polResult) = 1
       /\ polResult[1].createResult =
            [i \in 1..Len(policies) |->
               [PolicyName |-> policies[i].name,
                PolicyDocument |-> ExpectedJson(policies[i].document),
                Path |-> USERS_PATH]]
       /\ polResult[1].deleteResult =
            [j \in 1..Len(livePolicies) |-> [PolicyArn |-> livePolicies[j].Arn]]
       /\ \A j \in 1..Len(livePolicies) : PCallsBy("deletePolicy", j) # {}

\* the test: json.policies = [{name: '1', document: 'doc'}] against the
\* listing of the mock
C5_Witness ==
  /\ USERS_PATH = ""
  /\ policies = <<[name |-> "1", document |-> Str(<<"d", "o", "c">>)]>>
  /\ livePolicies = <<[PolicyName |-> "first", Arn |-> "123"],
                      [PolicyName |-> "second", Arn |-> "1234"]>>
  /\ polPc = "resolved"
  /\ polResult =
       <<[createResult |-> <<[PolicyName |-> "1",
                              PolicyDocument |-> Str(<<"\"", "d", "o", "c", "\"">>),
                              Path |-> ""]>>,
          deleteResult |-> <<[PolicyArn |-> "123"], [PolicyArn |-> "1234"]>>]>>

\* a policy named like a live one is created and the live one removed
C5_WitnessBothSides ==
  /\ policies = <<[name |-> "first", document |-> Str(<<"a", "\"", "b">>)]>>
  /\ livePolicies = <<[PolicyName |-> "first", Arn |-> "123"]>>
  /\ polPc = "resolved"

\* C6 as stated: the PolicyDocument createPolicy(name, document) sends is the
\* JSON serialization of the document it was passed.
C6_CreatePolicySerializes ==
  \A i \in 1..Len(kproc) :
    kproc[i].req.PolicyDocument = JSONStringify(kproc[i].document)

\* C6, amended: the serialization is update's.  For every policy of
\* json.policies update calls createPolicy with the JSON serialization of the
\* policy's document, and createPolicy sends PolicyName = name, Path =
\* USERS_PATH and PolicyDocument = that argument unchanged.
C6_UpdateSerializesDocument ==
  PoliciesFanned =>
    \A i \in 1..Len(policies) :
      /\ kproc[i].document = ExpectedJson(policies[i].document)
      /\ kproc[i].req = [PolicyName |-> policies[i].name,
                         PolicyDocument |-> kproc[i].document,
                         Path |-> USERS_PATH]
      /\ \E c \in pcalls :
           c.op = "createPolicy" /\ c.by = <<"createPolicy", i>> /\ c.req = kproc[i].req

\* update, under USERS_PATH = '/path', has sent PolicyDocument '"doc"' for the
\* document 'doc'
C6_Witness ==
  /\ USERS_PATH = "/path"
  /\ policies = <<[name |-> "1", document |-> Str(<<"d", "o", "c">>)]>>
  /\ Len(kproc) = 1
  /\ kproc[1].req = [PolicyName |-> "1",
                     PolicyDocument |-> Str(<<"\"", "d", "o", "c", "\"">>),
                     Path |-> "/path"]

----------------------------------------------------------------------------

AnyRejected == "rejected" \in (Pcs(cproc) \cup Pcs(dproc))

\* C8: once any createUser or deleteUser started by update has failed, update
\* has rejected and returns no result; update never issues a compensating
\* call (no delete-side call names a user it creates, no create-side call a
\* user it deletes); and a sibling whose remote call is in flight is not
\* cancelled: its response is still taken.
C8_FailureFailsUpdateNoRollback ==
  /\ (Diffed /\ AnyRejected) => (updPc = "rejected" /\ updResult = <<>>)
  /\ updPc # "resolved" => updResult = <<>>
  /\ \A c \in calls :
       /\ c.op \in DeleteOps => c.UserName \notin Range(usersToAdd)
       /\ c.op \in CreateOps => c.UserName \notin Range(usersToDelete)
  /\ updPc = "rejected" =>
       /\ \A i \in 1..Len(cproc) :
            /\ cproc[i].pc = "createUser" => ENABLED CreateUserResponds(i, TRUE)
            /\ cproc[i].pc = "createAccessKey" => ENABLED CreateAccessKeyResponds(i, TRUE)
            /\ cproc[i].pc = "createLoginProfile" => ENABLED CreateLoginProfileResponds(i, TRUE)
       /\ \A j \in 1..Len(dproc) :
            /\ dproc[j].pc = "listGroupsForUser" => ENABLED ListGroupsForUserResponds(j, TRUE, <<>>)
            /\ dproc[j].pc = "deleteLoginProfile" => ENABLED DeleteLoginProfileResponds(j, TRUE)
            /\ dproc[j].pc = "deleteUser" => ENABLED DeleteUserResponds(j, TRUE)

\* a createUser failed and update rejected; the sibling deleteUser, already
\* dispatched, has run to completion and its remote deletion stands
C8_Witness ==
  /\ updPc = "rejected"
  /\ updResult = <<>>
  /\ Len(cproc) = 1 /\ cproc[1].pc = "rejected"
  /\ Len(dproc) = 1 /\ dproc[1].pc = "resolved"
  /\ DeleteUserIssued(1)

\* C10: once update has diffed, a createUser invocation exists for every
\* entry of usersToAdd and a deleteUser invocation for every entry of
\* usersToDelete, each with its first remote call issued, whatever the
\* outcome of the others.
C10_AllStartedBeforeAwait ==
  Diffed =>
    /\ Len(cproc) = Len(usersToAdd)
    /\ \A i \in 1..Len(usersToAdd) :
         /\ cproc[i].name = usersToAdd[i]
         /\ \E c \in CallsOf("createUser", usersToAdd[i]) : c.by = <<"createUser", i>>
    /\ Len(dproc) = Len(usersToDelete)
    /\ \A j \in 1..Len(usersToDelete) :
         /\ dproc[j].name = usersToDelete[j]
         /\ \E c \in CallsOf("listGroupsForUser", usersToDelete[j]) : c.by = <<"deleteUser", j>>

\* a delete has completed while a create has not had its first answer, and a
\* second create was started although the first has already failed
C10_Witness ==
  /\ Len(cproc) = 2 /\ Len(dproc) = 1
  /\ cproc[1].pc = "rejected"
  /\ cproc[2].pc = "createUser"
  /\ dproc[1].pc = "resolved"

\* the other order: a create has completed while a delete has not had its
\* first answer
C10_WitnessCreateFirst ==
  /\ Len(cproc) = 1 /\ Len(dproc) = 1
  /\ cproc[1].pc = "resolved"
  /\ dproc[1].pc = "listGroupsForUser"

----------------------------------------------------------------------------

EmailCallsBy(i) ==
  {c \in calls : c.op = "enqueueSendUserCredentialsEmail" /\ c.by = <<"createUser", i>>}

C11_WitnessPending ==
  /\ Len(cproc) = 1
  /\ cproc[1].name = "alice"
  /\ cproc[1].pc = "resolved"
  /\ cproc[1].notif = "pending"

----------------------------------------------------------------------------

\* C18: for a name ending in '_keys', createUser has resolved only if
\* enqueueSendProgrammaticAccessKeys has completed; while the notification is
\* in flight createUser is waiting for it; and when the notification has failed
\* createUser has failed, although the remote createUser and createAccessKey
\* calls succeeded, and no call that would remove the user or its key is issued.
C18_KeysNotifierAwaited ==
  \A i \in 1..Len(cproc) :
    LET p == cproc[i]
    IN  LastFiveAreKeys(p.name) =>
          /\ p.pc = "resolved" =>
               /\ p.notif = "done"
               /\ p.resp = [of |-> "createUser", UserName |-> p.name]
          /\ p.notif = "pending" => p.pc = "enqueueSendProgrammaticAccessKeys"
          /\ p.notif = "failed" =>
               /\ p.pc = "rejected"
               /\ p.resp.of = "createUser" /\ p.cred = "done"
               /\ CallsOf("createUser", p.name) # {}
               /\ CallsOf("createAccessKey", p.name) # {}
               /\ CallsOf("deleteUser", p.name) = {}
               /\ CallsOf("deleteAccessKey", p.name) = {}

\* inside update, createUser("bob_keys") created the user and the key, the
\* notification failed, and createUser and update are rejected
C18_Witness ==
  /\ updPc = "rejected"
  /\ \E i \in 1..Len(cproc) :
       /\ cproc[i].name = "bob_keys"
       /\ cproc[i].pc = "rejected"
       /\ cproc[i].cred = "done"
       /\ cproc[i].notif = "failed"

\* createUser("bob_keys") resolved after the notification completed
C18_WitnessResolved ==
  \E i \in 1..Len(cproc) :
    /\ cproc[i].name = "bob_keys"
    /\ cproc[i].pc = "resolved"
    /\ cproc[i].notif = "done"

----------------------------------------------------------------------------

CredentialCallsBy(i) ==
  {c \in calls : c.op \in {"createAccessKey", "createLoginProfile"} /\ c.by = <<"createUser", i>>}

NotifierCallsBy(i) ==
  {c \in calls : c.op \in {"enqueueSendProgrammaticAccessKeys", "enqueueSendUserCredentialsEmail"}
                   /\ c.by = <<"createUser", i>>}

\* C20: a createUser invocation has issued its credential call only if its
\* remote createUser call has succeeded, and has called the notifier only if
\* the credential call has succeeded; an invocation whose createUser call
\* failed has issued neither, and one whose credential call failed has not
\* called the notifier.
C20_CreateThenCredentialThenNotify ==
  \A i \in 1..Len(cproc) :
    LET p == cproc[i]
    IN  /\ CredentialCallsBy(i) # {} => p.resp.of = "createUser"
        /\ NotifierCallsBy(i) # {} => CredentialCallsBy(i) # {} /\ p.cred = "done"
        /\ (p.pc = "rejected" /\ p.resp.of = "none") =>
             CredentialCallsBy(i) = {} /\ NotifierCallsBy(i) = {}
        /\ p.cred = "failed" => p.pc = "rejected" /\ NotifierCallsBy(i) = {}
        /\ p.resp.of = "createUser" => CredentialCallsBy(i) # {}
        /\ p.cred = "done" => NotifierCallsBy(i) # {}

\* createUser("alice"): the login profile could not be created, no
\* notification has been sent
C20_Witness ==
  \E i \in 1..Len(cproc) :
    /\ cproc[i].name = "alice"
    /\ cproc[i].resp.of = "createUser"
    /\ cproc[i].cred = "failed"
    /\ cproc[i].pc = "rejected"
    /\ NotifierCallsBy(i) = {}

\* createUser("bob_keys"): the remote createUser call failed, nothing else was
\* called
C20_WitnessCreateFailed ==
  \E i \in 1..Len(cproc) :
    /\ cproc[i].name = "bob_keys"
    /\ cproc[i].pc = "rejected"
    /\ cproc[i].resp.of = "none"
    /\ CredentialCallsBy(i) = {}

\* createUser("bob_keys") went through all three calls
C20_WitnessAll ==
  \E i \in 1..Len(cproc) :
    /\ cproc[i].name = "bob_keys"
    /\ cproc[i].pc = "resolved"
    /\ CredentialCallsBy(i) # {} /\ NotifierCallsBy(i) # {}

----------------------------------------------------------------------------

KeyIdsDeleted(UserName) == {c.AccessKeyId : c \in CallsOf("deleteAccessKey", UserName)}

\* C17: a deleteUser invocation for a name whose last five characters are
\* '_keys' lists the access keys once its group listing has answered, issues
\* deleteAccessKey for exactly the keys listAccessKeys returned and never
\* calls deleteLoginProfile; for any other name it calls deleteLoginProfile
\* once, and never listAccessKeys or deleteAccessKey.
C17_OneCredentialRemovalBySuffix ==
  \A j \in 1..Len(dproc) :
    LET p == dproc[j]
        u == p.name
    IN  IF LastFiveAreKeys(u)
        THEN /\ CallsOf("deleteLoginProfile", u) = {}
             /\ p.cred # "none" <=> CallsOf("listAccessKeys", u) # {}
             /\ KeyIdsDeleted(u) = Range(p.keys)
             /\ Cardinality(CallsOf("deleteAccessKey", u)) = Len(p.keys)
        ELSE /\ CallsOf("listAccessKeys", u) = {}
             /\ CallsOf("deleteAccessKey", u) = {}
             /\ Cardinality(CallsOf("deleteLoginProfile", u)) = (IF p.cred = "none" THEN 0 ELSE 1)

\* deleteUser("bob_keys"): two keys were listed, both were deleted, the user
\* was deleted
C17_Witness ==
  /\ Len(dproc) = 1
  /\ dproc[1].name = "bob_keys"
  /\ dproc[1].keys = <<"AKIA1", "AKIA2">>
  /\ dproc[1].key = <<"done", "done">>
  /\ dproc[1].pc = "resolved"
  /\ KeyIdsDeleted("bob_keys") = {"AKIA1", "AKIA2"}

\* deleteUser("bobkeys"), whose last five characters are not '_keys': the login
\* profile was deleted, the user was deleted
C17_WitnessProfile ==
  /\ Len(dproc) = 1
  /\ dproc[1].name = "bobkeys"
  /\ dproc[1].pc = "resolved"
  /\ CallsOf("deleteLoginProfile", "bobkeys") # {}

----------------------------------------------------------------------------

\* the group listing of a deleteUser invocation failed: it is rejected before
\* any credential removal was started
ListGroupsFailed(p) == p.pc = "rejected" /\ p.cred = "none"

DeleteUserFailure(p) ==
  ListGroupsFailed(p) \/ p.cred = "failed" \/ "failed" \in Range(p.grp)

\* C19: a deleteUser invocation whose group listing, credential removal or
\* one of whose removeUserFromGroup calls has failed never issues the remote
\* deleteUser call and does not resolve; it is rejected as soon as the
\* credential removal it awaits has settled; and every group removal still in
\* flight after the rejection can still complete.
C19_FailureAbortsDeleteUser ==
  \A j \in 1..Len(dproc) :
    LET p == dproc[j]
    IN  /\ DeleteUserFailure(p) =>
             /\ {c \in CallsOf("deleteUser", p.name) : c.by = <<"deleteUser", j>>} = {}
             /\ p.pc \notin {"deleteUser", "resolved"}
             /\ p.cred # "pending" => p.pc = "rejected"
        /\ \A k \in 1..Len(p.grp) :
             (p.pc = "rejected" /\ p.grp[k] = "pending") =>
               ENABLED RemoveUserFromGroupResponds(j, k, TRUE)

\* deleteUser("alice"): the login profile could not be deleted; the removal
\* from both groups, started before, has completed; the user is not deleted
C19_Witness ==
  /\ Len(dproc) = 1
  /\ dproc[1].name = "alice"
  /\ dproc[1].cred = "failed"
  /\ dproc[1].pc = "rejected"
  /\ dproc[1].grp = <<"done", "done">>
  /\ CallsOf("removeUserFromGroup", "alice") # {}
  /\ CallsOf("deleteUser", "alice") = {}

\* a group removal failed, the access keys were deleted all the same
C19_WitnessGroupFailed ==
  /\ Len(dproc) = 1
  /\ dproc[1].name = "bob_keys"
  /\ "failed" \in Range(dproc[1].grp)
  /\ dproc[1].cred = "done"
  /\ dproc[1].key = <<"done">>
  /\ dproc[1].pc = "rejected"

\* the group listing failed
C19_WitnessListing ==
  /\ Len(dproc) = 1
  /\ ListGroupsFailed(dproc[1])
  /\ CallsOf("deleteUser", dproc[1].name) = {}

\* rejected by the credential removal while a group removal is in flight
C19_WitnessInFlight ==
  /\ Len(dproc) = 1
  /\ dproc[1].pc = "rejected"
  /\ dproc[1].cred = "failed"
  /\ "pending" \in Range(dproc[1].grp)

----------------------------------------------------------------------------

\* the calls issued for a user: every call but listUsers names one
CallsNaming(UserName) == {c \in calls : c.op # "listUsers" /\ c.UserName = UserName}

\* C16: for a name that is both in the desired list and in the live listing,
\* update starts no createUser and no deleteUser invocation and no remote call
\* or notification of any kind is ever issued with that name.
C16_CommonUserUntouched ==
  \A u \in Range(desired) \cap Range(live) :
    /\ u \notin Names(cproc) \cup Names(dproc)
    /\ CallsNaming(u) = {}

\* desired alice and bob_keys, live bob_keys and carol: update has resolved,
\* alice was created, carol deleted, and nothing was called for bob_keys
C16_Witness ==
  /\ desired = <<"alice", "bob_keys">>
  /\ live = <<"bob_keys", "carol">>
  /\ updPc = "resolved"
  /\ CallsNaming("alice") # {}
  /\ CallsNaming("carol") # {}
  /\ CallsNaming("bob_keys") = {}

----------------------------------------------------------------------------

RemoteCreateUserCalls(UserName) == CallsOf("createUser", UserName)

RemoteDeleteUserCalls(UserName) == CallsOf("deleteUser", UserName)

\* C15: one update invocation issues the remote createUser call at most once
\* per distinct user name and the remote deleteUser call at most once per
\* distinct user name, whatever the desired list (a repeated name included)
\* and the live listing.
C15_AtMostOncePerName ==
  \A u \in UpdateNames :
    /\ Cardinality(RemoteCreateUserCalls(u)) <= 1
    /\ Cardinality(RemoteDeleteUserCalls(u)) <= 1

\* the desired list names alice twice and alice is not live: update has
\* started two createUser invocations for alice
C15_Witness ==
  /\ desired = <<"alice", "alice">>
  /\ "alice" \notin Range(live)
  /\ usersToAdd = <<"alice", "alice">>
  /\ Len(cproc) = 2
  /\ Cardinality(RemoteCreateUserCalls("alice")) = 2

----------------------------------------------------------------------------

\* a createUser invocation has resolved or rejected and its notifier answered
CreateUserSettled(p) == p.pc \in {"resolved", "rejected"} /\ p.notif # "pending"

\* a deleteUser invocation has resolved or rejected and every group removal and
\* key deletion it started has answered
DeleteUserSettled(p) ==
  /\ p.pc \in {"resolved", "rejected"}
  /\ "pending" \notin Range(p.grp)
  /\ "pending" \notin Range(p.key)

SubOperationsSettled ==
  /\ \A i \in 1..Len(cproc) : CreateUserSettled(cproc[i])
  /\ \A j \in 1..Len(dproc) : DeleteUserSettled(dproc[j])

UpdateSettled == updPc \in {"resolved", "rejected"}

\* C12: when every call is answered, an invocation of update leads to a state
\* in which update has resolved or rejected and every createUser and
\* deleteUser invocation it started, with every call those started, has
\* completed or failed.
C12_UpdateAndSubOperationsTerminate ==
  (updPc = "listUsers") ~> (UpdateSettled /\ SubOperationsSettled)

\* update was rejected by a failed createUser, and the deleteUser it had
\* started, with its group removal, ran to completion all the same
C12_Witness ==
  /\ updPc = "rejected"
  /\ SubOperationsSettled
  /\ \E i \in 1..Len(cproc) : cproc[i].pc = "rejected"
  /\ \E j \in 1..Len(dproc) :
       /\ dproc[j].pc = "resolved"
       /\ dproc[j].grp = <<"done">>

\* update resolved with one user created and one deleted
C12_WitnessResolved ==
  /\ updPc = "resolved"
  /\ SubOperationsSettled
  /\ Len(cproc) = 1 /\ Len(dproc) = 1

----------------------------------------------------------------------------

EntitiesCalls(op) ==
  {c \in pcalls : c.op = op /\ c.by = <<"detachFromAllEntities", 1>>}

\* the detach requests for the groups gs of the policy arn
DetachRequests(arn, gs) == {[GroupName |-> g, PolicyArn |-> arn] : g \in Range(gs)}

RequestOf(c) == [GroupName |-> c.GroupName, PolicyArn |-> c.PolicyArn]

\* C13: detachFromAllEntities(arn) issues no detach call before the listing
\* has answered; once it has, the detach calls issued are exactly one per
\* listed group, each with PolicyArn = arn; it never deletes the policy; and
\* when it has resolved, its result is the sequence of the detach answers in
\* the order of the listed groups.  The detach calls removePolicy issues are
\* one per listed group as well.
C13_DetachOnePerListedGroup ==
  /\ \A n \in 1..Len(eproc) :
       LET p == eproc[n]
           issued == EntitiesCalls("detachGroupPolicy")
       IN  /\ p.list # "done" => issued = {}
           /\ p.list = "done" =>
                /\ {RequestOf(c) : c \in issued} = DetachRequests(p.arn, p.groups)
                /\ Cardinality(issued) = Len(p.groups)
           /\ EntitiesCalls("deletePolicy") = {}
           /\ p.pc = "resolved" =>
                /\ Len(p.resp) = 1
                /\ Len(p.resp[1]) = Len(p.groups)
                /\ \A k \in 1..Len(p.groups) :
                     p.resp[1][k] = [GroupName |-> p.groups[k], PolicyArn |-> p.arn]
  /\ \A j \in 1..Len(rproc) :
       LET p == rproc[j]
           issued == PCallsBy("detachGroupPolicy", j)
       IN  /\ {RequestOf(c) : c \in issued} = DetachRequests(p.arn, p.groups)
           /\ Cardinality(issued) = Len(p.groups)

\* the test: detachFromAllEntities('ARN') with g_first and g_second attached
C13_Witness ==
  /\ Len(eproc) = 1
  /\ eproc[1].arn = "ARN"
  /\ eproc[1].groups = <<"g_first", "g_second">>
  /\ eproc[1].pc = "resolved"
  /\ eproc[1].resp = << << [GroupName |-> "g_first", PolicyArn |-> "ARN"],
                           [GroupName |-> "g_second", PolicyArn |-> "ARN"] >> >>
  /\ Cardinality(EntitiesCalls("detachGroupPolicy")) = 2

\* no group is attached: it resolves with the empty sequence and detaches
\* nothing
C13_WitnessNoGroup ==
  /\ Len(eproc) = 1
  /\ eproc[1].list = "done"
  /\ eproc[1].groups = <<>>
  /\ eproc[1].pc = "resolved"
  /\ eproc[1].resp = << <<>> >>
  /\ EntitiesCalls("detachGroupPolicy") = {}

----------------------------------------------------------------------------

\* the positions of the listing whose record is named PolicyName
Matching(PolicyName, listed) == {k \in 1..Len(listed) : listed[k].PolicyName = PolicyName}

\* the position of a record in a listing that holds it once
PositionIn(listed, r) == CHOOSE k \in 1..Len(listed) : listed[k] = r

\* C14: when getPolicy(name) has resolved, its result is a sequence; every
\* entry is a record of the listing named name, with all its fields; every
\* record of the listing named name is in it exactly once; and the entries
\* are in the order of the listing (the sequence is empty when no record
\* matches).
C14_GetPolicyReturnsMatchingSubsequence ==
  \A n \in 1..Len(gproc) :
    LET p == gproc[n]
    IN  p.pc = "resolved" =>
          /\ Len(p.resp) = 1
          /\ LET r == p.resp[1]
             IN  /\ r \in Seq(ListedPolicyPool)
                 /\ Len(r) = Cardinality(Matching(p.name, p.listed))
                 /\ \A k \in 1..Len(r) :
                      /\ r[k].PolicyName = p.name
                      /\ \E m \in Matching(p.name, p.listed) : r[k] = p.listed[m]
                 /\ \A m \in Matching(p.name, p.listed) :
                      \E k \in 1..Len(r) : r[k] = p.listed[m]
                 /\ \A a, b \in 1..Len(r) :
                      a < b => PositionIn(p.listed, r[a]) < PositionIn(p.listed, r[b])

\* the test: getPolicy('first') on the listing of the mock; data[0] is the
\* whole record, data: 1 included
C14_Witness ==
  /\ Len(gproc) = 1
  /\ gproc[1].name = "first"
  /\ gproc[1].listed = << [PolicyName |-> "first", Arn |-> "123", data |-> 1],
                          [PolicyName |-> "second", Arn |-> "1234"] >>
  /\ gproc[1].pc = "resolved"
  /\ gproc[1].resp = << << [PolicyName |-> "first", Arn |-> "123", data |-> 1] >> >>

\* two policies of the listing are named 'first': both are returned, in
\* listing order
C14_WitnessTwo ==
  /\ Len(gproc) = 1
  /\ gproc[1].name = "first"
  /\ gproc[1].pc = "resolved"
  /\ gproc[1].resp = << << [PolicyName |-> "first", Arn |-> "12345"],
                           [PolicyName |-> "first", Arn |-> "123", data |-> 1] >> >>

\* no policy of the listing has the name: the result is the empty sequence
C14_WitnessNone ==
  /\ Len(gproc) = 1
  /\ gproc[1].name = "policyName"
  /\ Len(gproc[1].listed) = 3
  /\ gproc[1].pc = "resolved"
  /\ gproc[1].resp = << <<>> >>

====
